---- MODULE Spec2Model ----
\* State-machine model of the FuzzySearch component (src/src/FuzzySearch.tsx).
\*
\* Strings are sequences of one-character strings, so that startsWith,
\* includes and toLowerCase are computed, not assumed.  An optional value
\* (string | null | undefined) is a sequence of length at most one:
\* << >> is null/undefined and <<s>> is the string s.
EXTENDS Integers, Sequences, FiniteSets, TLC

VARIABLES data, inputValue, tags, showSuggestions, highlightedSuggestion,
          reported, crashed,
          \* History: the keys now in the tag store, oldest insertion first.
          insertionOrder

vars == <<data, inputValue, tags, showSuggestions, highlightedSuggestion,
          reported, crashed, insertionOrder>>

-----------------------------------------------------------------------------
\* Bounds of the model.

\* Longest dataset handed to the component.
MaxRecords == 2
\* Longest text that a change event puts in the input box.
MaxTextLen == 2
\* Largest tag store a commit may still extend.
MaxTags == 2

-----------------------------------------------------------------------------
\* Strings.

None == << >>
Some(s) == <<s>>

UpperCase == <<"A","B","C","D","E","F","G","H","I","J","K","L","M",
               "N","O","P","Q","R","S","T","U","V","W","X","Y","Z">>
LowerCase == <<"a","b","c","d","e","f","g","h","i","j","k","l","m",
               "n","o","p","q","r","s","t","u","v","w","x","y","z">>

\* The lowercase form of each uppercase letter.
lowerOf ==
    [c \in { UpperCase[i] : i \in 1..Len(UpperCase) } |->
        LowerCase[CHOOSE i \in 1..Len(UpperCase) : UpperCase[i] = c]]

toLowerCaseChar(c) == IF c \in DOMAIN lowerOf THEN lowerOf[c] ELSE c

toLowerCase(s) == [i \in 1..Len(s) |-> toLowerCaseChar(s[i])]

\* String.prototype.includes
includes(s, sub) ==
    \E i \in 0..(Len(s) - Len(sub)) : SubSeq(s, i + 1, i + Len(sub)) = sub

\* String.prototype.startsWith
startsWith(s, p) == Len(p) <= Len(s) /\ SubSeq(s, 1, Len(p)) = p

Digits == <<"0","1","2","3","4","5","6","7","8","9">>

\* Number.prototype.toString for a non-negative integer.
RECURSIVE numToString(_)
numToString(n) ==
    IF n < 10 THEN <<Digits[n + 1]>>
    ELSE numToString(n \div 10) \o <<Digits[(n % 10) + 1]>>

\* What an undefined argument becomes when a string method coerces it.
UndefinedText == <<"u","n","d","e","f","i","n","e","d">>

-----------------------------------------------------------------------------
\* HttpLog records.

K_method == <<"m","e","t","h","o","d">>
K_path == <<"p","a","t","h">>
K_statusCode == <<"s","t","a","t","u","s","C","o","d","e">>
K_id == <<"i","d">>
K_domain == <<"d","o","m","a","i","n">>

\* The attribute names of an HttpLog, in declaration order.
HttpLogKeys == <<K_method, K_path, K_statusCode, K_id, K_domain>>

HttpLog(method, path, statusCode, id, domain) ==
    (K_method :> method) @@ (K_path :> path) @@ (K_statusCode :> statusCode)
        @@ (K_id :> id) @@ (K_domain :> domain)

\* item[key].toString(): statusCode is the number field, the others are
\* strings already.
fieldToString(item, key) ==
    IF key = K_statusCode THEN numToString(item[key]) ELSE item[key]

\* The records the datasets are drawn from.
Pool ==
    << HttpLog(<<"G","E","T">>, <<"/","u">>, 200, <<"1">>, <<"a">>),
       HttpLog(<<"P","U","T">>, <<"s","t","a","t","u","s">>, 200, <<"2">>, <<"a">>),
       HttpLog(<<"G","E","T">>, <<"/","u","/","1">>, 404, <<"3">>, <<"b">>) >>

RECURSIVE SubSeqsOf(_)
\* All subsequences of s (order kept).
SubSeqsOf(s) ==
    IF s = << >> THEN { << >> }
    ELSE LET rest == SubSeqsOf(Tail(s))
         IN  rest \cup { <<Head(s)>> \o r : r \in rest }

Datasets == { d \in SubSeqsOf(Pool) : Len(d) <= MaxRecords }

\* The texts a change event may put in the input box.
Probes ==
    { << >>, <<"z">>, <<"u">>, <<"U">>, <<"s">>, <<"m">>,
      <<"/","u">>, <<"/","u","/">> }

Texts == { t \in Probes : Len(t) <= MaxTextLen }

-----------------------------------------------------------------------------
\* The tag store: a Map<string, string | null>, kept as the sequence of its
\* entries in insertion order.

Entry(k, v) == [key |-> k, value |-> v]

tagsHas(tg, k) == \E i \in 1..Len(tg) : tg[i].key = k

tagsKeys(tg) == { tg[i].key : i \in 1..Len(tg) }

\* Map.prototype.set: overwrite in place, or append.
mapSet(tg, k, v) ==
    IF tagsHas(tg, k)
    THEN [i \in 1..Len(tg) |-> IF tg[i].key = k THEN Entry(k, v) ELSE tg[i]]
    ELSE Append(tg, Entry(k, v))

\* A delete that drops the last entry, whatever the key.
mapDelete_Pop(tg, k) == SubSeq(tg, 1, Len(tg) - 1)

\* Map.prototype.delete
mapDelete(tg, k) ==
    LET keep(e) == e.key # k IN SelectSeq(tg, keep)

\* JavaScript truthiness of string | null | undefined.
truthy(opt) == opt # None /\ opt[1] # << >>

incompleteTag(tg) ==
    IF \E i \in 1..Len(tg) : tg[i].value = None
    THEN LET first == CHOOSE i \in 1..Len(tg) :
                          /\ tg[i].value = None
                          /\ \A j \in 1..(i - 1) : tg[j].value # None
         IN  Some(tg[first].key)
    ELSE None

-----------------------------------------------------------------------------
\* Values derived from the state on every render.

\* Object.keys(data[0]) throws a TypeError when data[0] is undefined.
dataKeysThrows(d) == d = << >>

dataKeys(d) ==
    LET own(k) == k \in DOMAIN d[1] IN SelectSeq(HttpLogKeys, own)

getMatchingKeys(d, tg, input) ==
    LET match(k) == startsWith(k, input) /\ ~tagsHas(tg, k)
    IN  SelectSeq(dataKeys(d), match)

RECURSIVE arrayFromSet(_)
\* Array.from(new Set(xs)): first occurrences, in order.
arrayFromSet(xs) ==
    IF xs = << >> THEN << >>
    ELSE LET front == arrayFromSet(SubSeq(xs, 1, Len(xs) - 1))
             last == xs[Len(xs)]
         IN  IF \E i \in 1..Len(front) : front[i] = last
             THEN front
             ELSE Append(front, last)

\* i[tagKey] is undefined for a record without that field, and
\* undefined.toString() throws a TypeError.
getSuggestionsThrows(d, tagKey) ==
    \E i \in 1..Len(d) : tagKey \notin DOMAIN d[i]

\* getSuggestions without the Set: repeated values stay.
getSuggestions_NoDedup(d, tagKey, input) ==
    LET strs == [i \in 1..Len(d) |-> fieldToString(d[i], tagKey)]
        match(s) == includes(toLowerCase(s), toLowerCase(input))
    IN  SelectSeq(strs, match)

\* getSuggestions returning the lowercase form it matched on.
getSuggestions_Lowercased(d, tagKey, input) ==
    LET strs == [i \in 1..Len(d) |-> toLowerCase(fieldToString(d[i], tagKey))]
        match(s) == includes(s, toLowerCase(input))
    IN  arrayFromSet(SelectSeq(strs, match))

getSuggestions(d, tagKey, input) ==
    LET strs == [i \in 1..Len(d) |-> fieldToString(d[i], tagKey)]
        match(s) == includes(toLowerCase(s), toLowerCase(input))
    IN  arrayFromSet(SelectSeq(strs, match))

suggestionsThrows(d, tg, input) ==
    LET inc == incompleteTag(tg)
    IN  IF ~truthy(inc)
        THEN ~tagsHas(tg, K_path) /\ getSuggestionsThrows(d, K_path)
        ELSE getSuggestionsThrows(d, inc[1])

suggestions(d, tg, input) ==
    LET inc == incompleteTag(tg)
    IN  IF ~truthy(inc)
        THEN LET pathSuggestions ==
                     IF ~tagsHas(tg, K_path)
                     THEN getSuggestions(d, K_path, input)
                     ELSE << >>
             IN  IF Len(pathSuggestions) > 0
                 THEN pathSuggestions
                 ELSE getMatchingKeys(d, tg, input)
        ELSE getSuggestions(d, inc[1], input)

\* The effect that follows a change of the suggestion list.
clampHighlight(hl, n) == IF hl >= n THEN n - 1 ELSE hl

\* The tag loop returning after the first completed tag it looks at.
tagCheck_FirstOnly(item, tg, i) ==
    IF \E j \in i..Len(tg) : truthy(tg[j].value)
    THEN LET j == CHOOSE j \in i..Len(tg) :
                      /\ truthy(tg[j].value)
                      /\ \A h \in i..(j - 1) : ~truthy(tg[h].value)
         IN  IF tg[j].key \notin DOMAIN item THEN "throw"
             ELSE IF fieldToString(item, tg[j].key) # tg[j].value[1]
                  THEN "reject"
                  ELSE "pass"
    ELSE "pass"

RECURSIVE tagCheck(_, _, _)
\* The loop over tags.entries() for one record, from entry i on:
\* "throw", "reject" or "pass".
tagCheck(item, tg, i) ==
    IF i > Len(tg) THEN "pass"
    ELSE IF ~truthy(tg[i].value) THEN tagCheck(item, tg, i + 1)
    ELSE IF tg[i].key \notin DOMAIN item THEN "throw"
    ELSE IF fieldToString(item, tg[i].key) # tg[i].value[1] THEN "reject"
    ELSE tagCheck(item, tg, i + 1)

isSelectingTag(d, tg, input) ==
    \E i \in 1..Len(dataKeys(d)) :
        startsWith(dataKeys(d)[i], input) /\ ~tagsHas(tg, dataKeys(d)[i])

filterThrows(d, tg, input) ==
    \E i \in 1..Len(d) : tagCheck(d[i], tg, 1) = "throw"

\* The filter comparing the path the way the suggestions do, ignoring case.
filterResults_CaseInsensitive(d, tg, input) ==
    LET keep(item) ==
            /\ tagCheck(item, tg, 1) = "pass"
            /\ IF Len(input) > 0 /\ ~isSelectingTag(d, tg, input)
               THEN includes(toLowerCase(item[K_path]), toLowerCase(input))
               ELSE TRUE
    IN  SelectSeq(d, keep)

filterResults(d, tg, input) ==
    LET keep(item) ==
            /\ tagCheck(item, tg, 1) = "pass"
            /\ IF Len(input) > 0 /\ ~isSelectingTag(d, tg, input)
               THEN includes(item[K_path], input)
               ELSE TRUE
    IN  SelectSeq(d, keep)

\* A render of the state (d, tg, input), or one of its effects, throws.
renderThrows(d, tg, input) ==
    \/ dataKeysThrows(d)
    \/ suggestionsThrows(d, tg, input)
    \/ filterThrows(d, tg, input)

-----------------------------------------------------------------------------
\* Handlers, as functions of the state they read.

changeHighlightedSuggestion(direction, prev, n) ==
    IF direction = "up"
    THEN IF prev > 0 THEN prev - 1 ELSE prev
    ELSE IF prev < n - 1 THEN prev + 1 ELSE prev

setTag(tg, tagKey, tagValue) == mapSet(tg, tagKey, tagValue)

\* suggestion || suggestions[highlightedSuggestion]?.toString()
selectedSuggestion(suggestion, sugg, hl) ==
    IF truthy(suggestion) THEN suggestion
    ELSE IF 0 <= hl /\ hl < Len(sugg) THEN Some(sugg[hl + 1])
    ELSE None

isTag(d, tg, selected) ==
    Len(getMatchingKeys(d, tg,
            IF selected = None THEN UndefinedText ELSE selected[1])) > 0

\* selectSuggestion without its incompleteTag branch.
selectSuggestionTags_NoIncomplete(d, tg, selected) ==
    IF truthy(selected)
    THEN IF isTag(d, tg, selected)
         THEN setTag(tg, selected[1], None)
         ELSE setTag(tg, K_path, selected)
    ELSE tg

\* selectSuggestion testing isTag before incompleteTag.
selectSuggestionTags_TagFirst(d, tg, selected) ==
    IF truthy(selected)
    THEN IF isTag(d, tg, selected)
         THEN setTag(tg, selected[1], None)
         ELSE IF truthy(incompleteTag(tg))
         THEN setTag(tg, incompleteTag(tg)[1], selected)
         ELSE setTag(tg, K_path, selected)
    ELSE tg

\* The tag store after selectSuggestion has chosen `selected`.
selectSuggestionTags(d, tg, selected) ==
    IF truthy(selected)
    THEN IF truthy(incompleteTag(tg))
         THEN setTag(tg, incompleteTag(tg)[1], selected)
         ELSE IF isTag(d, tg, selected)
         THEN setTag(tg, selected[1], None)
         ELSE setTag(tg, K_path, selected)
    ELSE tg

\* removeLastTagSection taking the first entry (shift) instead of the last.
removeLastTagSection_First(tg) ==
    IF ~truthy(incompleteTag(tg))
    THEN IF Len(tg) > 0 THEN setTag(tg, tg[1].key, None) ELSE tg
    ELSE mapDelete(tg, incompleteTag(tg)[1])

\* removeLastTagSection deleting a completed last tag outright.
removeLastTagSection_DeleteLast(tg) ==
    IF ~truthy(incompleteTag(tg))
    THEN IF Len(tg) > 0 THEN mapDelete(tg, tg[Len(tg)].key) ELSE tg
    ELSE mapDelete(tg, incompleteTag(tg)[1])

removeLastTagSection(tg) ==
    IF ~truthy(incompleteTag(tg))
    THEN IF Len(tg) > 0 THEN setTag(tg, tg[Len(tg)].key, None) ELSE tg
    ELSE mapDelete(tg, incompleteTag(tg)[1])

suggestionsVisible ==
    showSuggestions /\ Len(suggestions(data, tags, inputValue)) > 0

-----------------------------------------------------------------------------
\* Transitions.  Every event ends with the re-render of the new state and
\* the effects that follow it (highlight clamp, filter and onChange); an
\* uncaught TypeError there unmounts the component.

\* The insertion history after the store has become tg: keys no longer in
\* the store are forgotten, keys new to it are the latest insertions.
insertionOrderAfter(order, tg) ==
    LET stillThere(k) == \E i \in 1..Len(tg) : tg[i].key = k
        isNew(e) == \A i \in 1..Len(order) : order[i] # e.key
        added == SelectSeq(tg, isNew)
    IN  SelectSeq(order, stillThere) \o [i \in 1..Len(added) |-> added[i].key]

Settle(input, tg, show, hl) ==
    /\ data' = data
    /\ insertionOrder' = insertionOrderAfter(insertionOrder, tg)
    /\ inputValue' = input
    /\ tags' = tg
    /\ showSuggestions' = show
    /\ crashed' = renderThrows(data, tg, input)
    /\ highlightedSuggestion' =
           IF renderThrows(data, tg, input) THEN hl
           ELSE clampHighlight(hl, Len(suggestions(data, tg, input)))
    /\ reported' =
           IF renderThrows(data, tg, input) THEN reported
           ELSE Some(filterResults(data, tg, input))

Init ==
    /\ data \in Datasets
    /\ inputValue = << >>
    /\ tags = << >>
    /\ insertionOrder = << >>
    /\ showSuggestions = FALSE
    /\ crashed = renderThrows(data, << >>, << >>)
    /\ highlightedSuggestion =
           IF renderThrows(data, << >>, << >>) THEN 0
           ELSE clampHighlight(0, Len(suggestions(data, << >>, << >>)))
    /\ reported =
           IF renderThrows(data, << >>, << >>) THEN None
           ELSE Some(filterResults(data, << >>, << >>))

onTextInputChange(input) ==
    /\ ~crashed
    /\ input # inputValue
    /\ Settle(input, tags, TRUE, highlightedSuggestion)

ArrowDown ==
    /\ ~crashed
    /\ Settle(inputValue, tags, showSuggestions,
              changeHighlightedSuggestion("down", highlightedSuggestion,
                  Len(suggestions(data, tags, inputValue))))

ArrowUp ==
    /\ ~crashed
    /\ Settle(inputValue, tags, showSuggestions,
              changeHighlightedSuggestion("up", highlightedSuggestion,
                  Len(suggestions(data, tags, inputValue))))

\* selectSuggestion(suggestion?)
selectSuggestion(suggestion) ==
    LET selected == selectedSuggestion(suggestion,
                        suggestions(data, tags, inputValue),
                        highlightedSuggestion)
        newTags == selectSuggestionTags(data, tags, selected)
    IN  /\ Len(newTags) <= MaxTags
        /\ IF truthy(selected)
           THEN Settle(<< >>, newTags, showSuggestions, 0)
           ELSE Settle(inputValue, tags, showSuggestions,
                       highlightedSuggestion)

Enter ==
    /\ ~crashed
    /\ IF ~showSuggestions
       THEN Settle(inputValue, tags, TRUE, highlightedSuggestion)
       ELSE selectSuggestion(None)

\* Escape toggling the panel instead of closing it.
Escape_Toggle ==
    /\ ~crashed
    /\ Settle(inputValue, tags, ~showSuggestions, highlightedSuggestion)

Escape ==
    /\ ~crashed
    /\ Settle(inputValue, tags, FALSE, highlightedSuggestion)

\* onKeyDown returns early on a non-empty input, and the browser's default
\* action deletes the last character, which arrives as a change event.
Backspace ==
    /\ ~crashed
    /\ IF Len(inputValue) > 0
       THEN Settle(SubSeq(inputValue, 1, Len(inputValue) - 1), tags, TRUE,
                   highlightedSuggestion)
       ELSE Settle(inputValue, removeLastTagSection(tags), showSuggestions,
                   highlightedSuggestion)

\* The indexes of the suggestion rows on screen.
renderedRows ==
    IF ~crashed /\ suggestionsVisible
    THEN 0..(Len(suggestions(data, tags, inputValue)) - 1)
    ELSE {}

SuggestionHover(index) ==
    /\ ~crashed
    /\ index \in renderedRows
    /\ Settle(inputValue, tags, showSuggestions, index)

SuggestionClick(index) ==
    /\ ~crashed
    /\ index \in renderedRows
    /\ selectSuggestion(Some(suggestions(data, tags, inputValue)[index + 1]))

TagChipClick(key) ==
    /\ ~crashed
    /\ \E i \in 1..Len(tags) : tags[i].key = key /\ truthy(tags[i].value)
    /\ Settle(inputValue, mapDelete(tags, key), showSuggestions,
              highlightedSuggestion)

OutsideClick ==
    /\ ~crashed
    /\ suggestionsVisible
    /\ Settle(inputValue, tags, FALSE, highlightedSuggestion)

Next ==
    \/ \E input \in Texts : onTextInputChange(input)
    \/ ArrowDown
    \/ ArrowUp
    \/ Enter
    \/ Escape
    \/ Backspace
    \/ \E index \in renderedRows : SuggestionHover(index)
    \/ \E index \in renderedRows : SuggestionClick(index)
    \/ \E key \in tagsKeys(tags) : TagChipClick(key)
    \/ OutsideClick

Spec == Init /\ [][Next]_vars

-----------------------------------------------------------------------------
\* Vocabulary of the properties.

theSuggestions == suggestions(data, tags, inputValue)

pendingIndexes(tg) == { i \in 1..Len(tg) : tg[i].value = None }

completedIndexes(tg) == { i \in 1..Len(tg) : tg[i].value # None }

fieldNames == { HttpLogKeys[i] : i \in 1..Len(HttpLogKeys) }

unusedFieldNames(tg) == fieldNames \ tagsKeys(tg)

Range(seq) == { seq[i] : i \in 1..Len(seq) }

\* The candidate that Enter commits: the highlighted suggestion.
highlighted == selectedSuggestion(None, theSuggestions, highlightedSuggestion)

-----------------------------------------------------------------------------
\* C1: in every reachable state at most one entry of the tag store is pending
\* (null), and incompleteTag is exactly that entry's key when it exists (and
\* undefined when no entry is pending).
C1_SinglePending ==
    /\ Cardinality(pendingIndexes(tags)) <= 1
    /\ \A i \in pendingIndexes(tags) : incompleteTag(tags) = Some(tags[i].key)
    /\ pendingIndexes(tags) = {} => incompleteTag(tags) = None

\* A pending tag that follows a completed one.
C1_Witness ==
    /\ Len(tags) = 2
    /\ tags[1].value # None
    /\ tags[2].value = None

\* C2: once the clamping effect has run, a non-empty suggestion list has
\* 0 <= highlightedSuggestion <= len - 1 and an empty one has
\* highlightedSuggestion = -1.
C2_HighlightInRange ==
    ~crashed =>
        IF Len(theSuggestions) > 0
        THEN 0 <= highlightedSuggestion
                 /\ highlightedSuggestion <= Len(theSuggestions) - 1
        ELSE highlightedSuggestion = -1

\* C3: for every dataset, the empty one included, an empty tag store and an
\* empty input text make the filter report exactly the dataset to the host.
C3_IdentityFilter ==
    (tags = << >> /\ inputValue = << >>) => reported = Some(data)

\* C4: the list reported to the host is a subsequence of the dataset in
\* dataset order, and every record in it has, for every completed tag, a
\* field of that key whose stringified value equals the tag's value; a
\* pending tag rejects no record: with a tag pending and an empty input,
\* every record that equals all completed tags is reported.
C4_ReportedMatchesTags ==
    reported # None =>
        LET inReport(item) == item \in Range(reported[1])
        IN  /\ reported[1] = SelectSeq(data, inReport)
            /\ \A item \in Range(reported[1]) :
                   \A i \in completedIndexes(tags) :
                       /\ tags[i].key \in DOMAIN item
                       /\ fieldToString(item, tags[i].key) = tags[i].value[1]
            /\ (~crashed /\ pendingIndexes(tags) # {} /\ inputValue = << >>) =>
                   \A n \in 1..Len(data) :
                       (\A i \in completedIndexes(tags) :
                            fieldToString(data[n], tags[i].key)
                                = tags[i].value[1])
                           => inReport(data[n])

\* A completed tag that keeps some records and rejects others.
C4_Witness ==
    /\ ~crashed
    /\ completedIndexes(tags) # {}
    /\ reported # None
    /\ reported[1] # << >>
    /\ Len(reported[1]) < Len(data)

\* C5: a record that passes all completed tags is in the filtered view iff
\* its path contains the input text (case-sensitive) when the input is
\* non-empty and no field name absent from the tag store starts with it, and
\* is always in the view otherwise; pending tags make no difference.
passesCompletedTags(item, tg) ==
    \A i \in completedIndexes(tg) :
        fieldToString(item, tg[i].key) = tg[i].value[1]

C5_PathTextFilter ==
    ~crashed =>
        \A n \in 1..Len(data) :
            passesCompletedTags(data[n], tags) =>
                (data[n] \in Range(reported[1])
                    <=> IF /\ inputValue # << >>
                           /\ \A k \in unusedFieldNames(tags) :
                                  ~startsWith(k, inputValue)
                        THEN includes(data[n][K_path], inputValue)
                        ELSE TRUE)

\* With a tag pending, a text that is no field-name prefix keeps one record
\* and drops another.
C5_Witness ==
    /\ ~crashed
    /\ pendingIndexes(tags) # {}
    /\ inputValue # << >>
    /\ reported[1] # << >>
    /\ Len(reported[1]) < Len(data)

\* C6: the suggestion list is duplicate-free and is the reference function of
\* (dataset, tag store, input text): the distinct stringified values of the
\* pending field that contain the input ignoring case, in first-seen order;
\* else, with no `path` key in the store, the distinct path values that
\* contain it ignoring case, if there are any; else the field names that
\* start with the input and are no keys of the store, in field order.
noDuplicates(seq) ==
    \A i, j \in 1..Len(seq) : seq[i] = seq[j] => i = j

matchingValues(key, input) ==
    { fieldToString(data[n], key) : n \in
        { m \in 1..Len(data) :
            includes(toLowerCase(fieldToString(data[m], key)),
                     toLowerCase(input)) } }

firstSeen(key, v) ==
    CHOOSE n \in 1..Len(data) :
        /\ fieldToString(data[n], key) = v
        /\ \A m \in 1..(n - 1) : fieldToString(data[m], key) # v

isValueList(seq, key, input) ==
    /\ noDuplicates(seq)
    /\ Range(seq) = matchingValues(key, input)
    /\ \A i, j \in 1..Len(seq) :
           i < j => firstSeen(key, seq[i]) < firstSeen(key, seq[j])

fieldPosition(k) == CHOOSE i \in 1..Len(HttpLogKeys) : HttpLogKeys[i] = k

isFieldNameList(seq, tg, input) ==
    /\ noDuplicates(seq)
    /\ Range(seq) = { k \in unusedFieldNames(tg) : startsWith(k, input) }
    /\ \A i, j \in 1..Len(seq) :
           i < j => fieldPosition(seq[i]) < fieldPosition(seq[j])

C6_SuggestionsAreReference ==
    ~crashed =>
        IF pendingIndexes(tags) # {}
        THEN \A i \in pendingIndexes(tags) :
                 isValueList(theSuggestions, tags[i].key, inputValue)
        ELSE IF /\ K_path \notin tagsKeys(tags)
                /\ matchingValues(K_path, inputValue) # {}
             THEN isValueList(theSuggestions, K_path, inputValue)
             ELSE isFieldNameList(theSuggestions, tags, inputValue)

\* A pending field whose matching values repeat in the dataset.
C6_Witness ==
    /\ ~crashed
    /\ pendingIndexes(tags) # {}
    /\ Len(theSuggestions) > 0
    /\ Len(theSuggestions) < Len(data)
    /\ inputValue = << >>

-----------------------------------------------------------------------------
\* Commits, as seen from the state they start in.

\* Enter commits the highlighted suggestion.
EnterCommits == showSuggestions /\ truthy(highlighted) /\ Enter

pendingKey(tg) == tg[CHOOSE i \in pendingIndexes(tg) : TRUE].key

\* The tag store the commit of candidate c is stated to produce.
statedCommit(tg, c) ==
    IF pendingIndexes(tg) # {}
    THEN mapSet(tg, pendingKey(tg), Some(c))
    ELSE IF c \in unusedFieldNames(tg)
    THEN mapSet(tg, c, None)
    ELSE mapSet(tg, K_path, Some(c))

\* C7: committing a non-empty candidate c sets the pending key's value to c
\* if a tag is pending; else adds c -> pending if c is a field name absent
\* from the tag store; else sets the `path` tag to c.
C7_CommitAsStated ==
    [][ /\ EnterCommits => tags' = statedCommit(tags, highlighted[1])
        /\ \A index \in renderedRows :
               SuggestionClick(index) =>
                   tags' = statedCommit(tags, theSuggestions[index + 1])
      ]_vars

\* C8: every key of the tag store is an attribute name of the dataset's
\* records (a key of the first record).
C8_KeysAreFieldNames ==
    \A k \in tagsKeys(tags) : data # << >> /\ k \in DOMAIN data[1]

\* C9: committing a field name with no tag pending leads to exactly one
\* pending tag, that field name; a commit made while a tag is pending keeps
\* the keys and their order, keeps every completed entry, and so adds no
\* second key.
commitOf(c) ==
    \/ showSuggestions /\ highlighted = Some(c) /\ Enter
    \/ \E index \in renderedRows :
           theSuggestions[index + 1] = c /\ SuggestionClick(index)

anyCommit ==
    \/ showSuggestions /\ Enter
    \/ \E index \in renderedRows : SuggestionClick(index)

\* Each implication is written consequent first.
C9_OnePendingAtATime ==
    [][ /\ \A c \in unusedFieldNames(tags) :
               \/ /\ Cardinality(pendingIndexes(tags')) = 1
                  /\ incompleteTag(tags') = Some(c)
               \/ ~(pendingIndexes(tags) = {} /\ commitOf(c))
        /\ \/ /\ Len(tags') = Len(tags)
              /\ \A i \in 1..Len(tags) :
                     /\ tags'[i].key = tags[i].key
                     /\ tags[i].value # None => tags'[i] = tags[i]
           \/ ~(pendingIndexes(tags) # {} /\ anyCommit)
      ]_vars

\* A tag completed by a commit, a second one pending, and a commit on offer.
C9_Witness ==
    /\ ~crashed
    /\ Len(tags) = 2
    /\ tags[1].value # None
    /\ tags[2].value = None
    /\ showSuggestions
    /\ truthy(highlighted)

\* C10: Enter with the panel closed only opens it; Enter with the panel open
\* and a non-empty suggestion list commits the highlighted suggestion and
\* leaves an empty input text and highlight index 0.
C10_EnterAsStated ==
    /\ [][ (Enter /\ ~showSuggestions) =>
               /\ showSuggestions'
               /\ UNCHANGED <<tags, inputValue, highlightedSuggestion>>
         ]_vars
    /\ [] ( (~crashed /\ showSuggestions /\ Len(theSuggestions) > 0) =>
               /\ truthy(highlighted)
               /\ ENABLED ( /\ Enter
                            /\ \E i \in 1..Len(tags') :
                                   \/ tags'[i].key = highlighted[1]
                                   \/ tags'[i].value = highlighted
                            /\ inputValue' = << >>
                            /\ highlightedSuggestion' = 0 ) )

-----------------------------------------------------------------------------
\* C11: Backspace with an empty input text and no pending tag resets the
\* most recently inserted key of the tag store, and no other key.
changedKeys(tg, tg2) ==
    { k \in tagsKeys(tg) \cup tagsKeys(tg2) :
        \/ ~tagsHas(tg, k)
        \/ ~tagsHas(tg2, k)
        \/ \E i \in 1..Len(tg), j \in 1..Len(tg2) :
               tg[i].key = k /\ tg2[j].key = k /\ tg[i].value # tg2[j].value }

latestInserted == insertionOrder[Len(insertionOrder)]

resetsLatest(tg, tg2) ==
    /\ changedKeys(tg, tg2) = {latestInserted}
    /\ \E i \in 1..Len(tg2) :
           tg2[i].key = latestInserted /\ tg2[i].value = None

backspaceResets ==
    ~crashed /\ inputValue = << >> /\ pendingIndexes(tags) = {}
        /\ tags # << >>

\* The handler's result in every such state, and every such Backspace step.
C11_BackspaceTargetsLatest ==
    /\ [] (backspaceResets => resetsLatest(tags, removeLastTagSection(tags)))
    /\ [][ \/ ~backspaceResets
           \/ resetsLatest(tags, tags')
           \/ ~Backspace ]_vars

\* Two completed tags and an empty input: Backspace has a choice of keys.
C11_Witness ==
    /\ ~crashed
    /\ inputValue = << >>
    /\ Len(tags) = 2
    /\ pendingIndexes(tags) = {}

-----------------------------------------------------------------------------
\* C12: Backspace leaves the tag store unchanged when the input text is
\* non-empty; with an empty input it deletes the pending tag if there is
\* one, otherwise it makes the value of the last entry pending, keeping its
\* key and position, and with an empty store it changes nothing.  All other
\* entries and their order are unchanged.
statedBackspaceTags(tg, input) ==
    LET notPending(e) == e.value # None
    IN  IF input # << >> THEN tg
        ELSE IF pendingIndexes(tg) # {} THEN SelectSeq(tg, notPending)
        ELSE [i \in 1..Len(tg) |->
                 IF i = Len(tg) THEN [key |-> tg[i].key, value |-> None]
                 ELSE tg[i]]

\* The handler's result in every state with an empty input, and every
\* Backspace step.
C12_BackspaceFrame ==
    /\ [] ( (~crashed /\ inputValue = << >>) =>
                removeLastTagSection(tags)
                    = statedBackspaceTags(tags, inputValue) )
    /\ [][ \/ /\ tags' = statedBackspaceTags(tags, inputValue)
              /\ (inputValue = << >> /\ tags = << >>) => UNCHANGED vars
           \/ ~Backspace ]_vars

\* A `path` key is pending only after Backspace has re-opened a path tag;
\* here it also follows an untouched completed tag.
C12_Witness ==
    /\ ~crashed
    /\ Len(tags) = 2
    /\ tags[1].value # None
    /\ tags[2] = [key |-> K_path, value |-> None]

-----------------------------------------------------------------------------
\* C13: Escape closes the panel and leaves the tag store, the input text and
\* the highlight index unchanged; with the panel already closed it changes
\* no state variable.
C13_EscapeFrame ==
    [][ \/ /\ ~showSuggestions'
           /\ UNCHANGED <<tags, inputValue, highlightedSuggestion>>
           /\ ~showSuggestions => UNCHANGED vars
        \/ ~Escape ]_vars

\* Typing opens the panel and the overlay is rendered only over a non-empty
\* list, so a closed panel over a text without suggestions was closed by
\* Escape; here with tags in the store.
C13_Witness ==
    /\ ~crashed
    /\ ~showSuggestions
    /\ inputValue # << >>
    /\ Len(theSuggestions) = 0
    /\ tags # << >>

-----------------------------------------------------------------------------
\* C14: ArrowDown adds one to the highlight index unless it is already
\* len - 1, ArrowUp subtracts one unless it is already 0; at the bounds the
\* index stays, and after either key it lies in [0, len - 1] whenever the
\* suggestion list is non-empty.  Stated for a non-empty list.
inSuggestionRange(hl) == 0 <= hl /\ hl <= Len(theSuggestions) - 1

C14_ArrowsSaturate ==
    (~crashed /\ Len(theSuggestions) > 0) =>
        /\ ENABLED ( /\ ArrowDown
                     /\ highlightedSuggestion' =
                            IF highlightedSuggestion = Len(theSuggestions) - 1
                            THEN highlightedSuggestion
                            ELSE highlightedSuggestion + 1
                     /\ inSuggestionRange(highlightedSuggestion') )
        /\ ENABLED ( /\ ArrowUp
                     /\ highlightedSuggestion' =
                            IF highlightedSuggestion = 0
                            THEN highlightedSuggestion
                            ELSE highlightedSuggestion - 1
                     /\ inSuggestionRange(highlightedSuggestion') )

-----------------------------------------------------------------------------
\* Clicking the chip of the completed tag at position i.
withoutEntry(tg, i) == SubSeq(tg, 1, i - 1) \o SubSeq(tg, i + 1, Len(tg))

chips(tg) == { i \in 1..Len(tg) : truthy(tg[i].value) }

\* C15 as stated: clicking the chip of a completed tag removes exactly that
\* key, whatever its position; every other entry keeps its value and
\* relative order, and input text, highlight index and panel flag are
\* unchanged.
C15_ChipClickFrame ==
    [][ \A i \in chips(tags) :
            \/ /\ tags' = withoutEntry(tags, i)
               /\ UNCHANGED <<inputValue, highlightedSuggestion,
                              showSuggestions>>
            \/ ~TagChipClick(tags[i].key) ]_vars

\* C15 as amended: the same, except that a highlight index that is past the
\* end of the suggestion list of the new tag store becomes the index of that
\* list's last row (len - 1); otherwise it is unchanged.
C15_ChipClickFrameClamped ==
    /\ [] (\A i \in chips(tags) :
               mapDelete(tags, tags[i].key) = withoutEntry(tags, i))
    /\ [][ \A i \in chips(tags) :
               \/ /\ tags' = withoutEntry(tags, i)
                  /\ UNCHANGED <<inputValue, showSuggestions>>
                  /\ highlightedSuggestion' =
                         IF highlightedSuggestion
                                >= Len(suggestions(data', tags', inputValue'))
                         THEN Len(suggestions(data', tags', inputValue')) - 1
                         ELSE highlightedSuggestion
               \/ ~TagChipClick(tags[i].key) ]_vars

\* Two completed tags, and a highlight index too large for the suggestion
\* list that follows a click on the first chip.
C15_Witness ==
    /\ ~crashed
    /\ Len(tags) = 2
    /\ chips(tags) = {1, 2}
    /\ highlightedSuggestion
           >= Len(suggestions(data, withoutEntry(tags, 1), inputValue))

-----------------------------------------------------------------------------
\* C16: over a well-formed dataset (non-empty, every record with the same
\* keys) no sequence of events ends in a runtime error: every render, effect
\* and handler completes.
C16_NoRuntimeError == data # << >> => ~crashed

\* C17: the pending tag, if any, is the last entry of the tag store; no
\* completed entry follows a pending one.
C17_PendingIsLast == \A i \in pendingIndexes(tags) : i = Len(tags)

\* A pending tag behind a completed one, re-opened by Backspace.
C17_Witness ==
    /\ Len(tags) = 2
    /\ tags[1].value # None
    /\ tags[2].value = None
    /\ tags[2].key = K_path
    /\ inputValue # << >>

\* C18: every completed tag has a non-empty value that is the stringified
\* value of its field in at least one record; so with exactly one completed
\* tag and an empty input text the filtered view is not empty.
C18_CompletedValuesExist ==
    /\ \A i \in completedIndexes(tags) :
           /\ tags[i].value[1] # << >>
           /\ \E n \in 1..Len(data) :
                  /\ tags[i].key \in DOMAIN data[n]
                  /\ fieldToString(data[n], tags[i].key) = tags[i].value[1]
    /\ (~crashed /\ inputValue = << >>
            /\ Cardinality(completedIndexes(tags)) = 1) =>
           reported[1] # << >>

\* One completed tag on the number field that keeps a record and drops
\* another.
C18_Witness ==
    /\ ~crashed
    /\ inputValue = << >>
    /\ Len(tags) = 1
    /\ tags[1].key = K_statusCode
    /\ tags[1].value # None
    /\ reported[1] # << >>
    /\ Len(reported[1]) < Len(data)

\* C19: with an empty input text every Backspace lowers
\* 2 * (completed tags) + (pending tags) by exactly one and keeps the input
\* empty, so a store with n completed and p pending tags is empty after
\* exactly 2n + p presses, and further presses change nothing.
backspaceMeasure(tg) ==
    2 * Cardinality(completedIndexes(tg)) + Cardinality(pendingIndexes(tg))

RECURSIVE pressBackspace(_, _)
\* The tag store after k presses of Backspace on an empty input.
pressBackspace(tg, k) ==
    IF k = 0 THEN tg ELSE pressBackspace(removeLastTagSection(tg), k - 1)

\* The handler iterated from every state with an empty input, and every
\* Backspace step from such a state.
C19_BackspaceEmptiesStore ==
    /\ [] ( (~crashed /\ inputValue = << >>) =>
              /\ pressBackspace(tags, backspaceMeasure(tags)) = << >>
              /\ pressBackspace(tags, backspaceMeasure(tags) + 1) = << >>
              /\ backspaceMeasure(tags) > 0 =>
                     /\ pressBackspace(tags, backspaceMeasure(tags) - 1)
                            # << >>
                     /\ backspaceMeasure(removeLastTagSection(tags))
                            = backspaceMeasure(tags) - 1 )
    /\ [][ \/ /\ ~crashed'
              /\ inputValue' = << >>
              /\ IF tags = << >>
                 THEN UNCHANGED vars
                 ELSE backspaceMeasure(tags') = backspaceMeasure(tags) - 1
           \/ ~(inputValue = << >> /\ Backspace) ]_vars

\* A completed and a pending tag over an empty input: three presses to go,
\* the first of four already made.
C19_Witness ==
    /\ ~crashed
    /\ inputValue = << >>
    /\ Len(tags) = 2
    /\ tags[1].value # None
    /\ tags[2] = [key |-> K_path, value |-> None]

====
